---- MODULE Spec2Model ----
(***************************************************************************)
(* A model of the mission registry of src/mission_control.py: the class    *)
(* MissionControl, its dictionary of Mission records, its active-mission   *)
(* pointer and its eight methods.  Every method is an operator giving the  *)
(* registry the call leaves and its outcome (the value returned or the     *)
(* ValueError raised), and an action that makes the call; the outcome is   *)
(* kept in the variable ret until the caller takes it.                     *)
(***************************************************************************)
EXTENDS Integers, Sequences, FiniteSets, TLC

VARIABLES
    missions,        \* self.missions: mission id -> Mission record
    missions_keys,   \* the insertion order of the keys of self.missions
    active_mission,  \* self.active_mission: a mission id or None
    clock,           \* the position of the system clock in ClockReadings
    ret              \* the outcome of the call in progress, NoCall between calls

vars == <<missions, missions_keys, active_mission, clock, ret>>

----------------------------------------------------------------------------
(* Bounds of the exploration *)

\* at most this many commands and telemetry records are appended in all
MaxRecords == 2

\* the same, where two missions go through their lifecycle while time passes
MaxLifecycleRecords == 1

----------------------------------------------------------------------------
(* Python values *)

\* Python's None where a string is expected (Optional[str])
None == "None"

\* An optional list or dict argument: Python's None, or a value
NoneArg == [is_none |-> TRUE]

Arg(v) == [is_none |-> FALSE, value |-> v]

\* the default of the parameter system_health of add_telemetry
DefaultHealth == "nominal"

\* the marker of a call that leaves system_health to its default
Omitted == "<omitted>"

PLANNED == "planned"
ACTIVE == "active"
COMPLETED == "completed"
ABORTED == "aborted"
FAILED == "failed"

MissionStatus == {PLANNED, ACTIVE, COMPLETED, ABORTED, FAILED}

CMD_PENDING == "pending"
CMD_EXECUTING == "executing"
CMD_COMPLETED == "completed"
CMD_FAILED == "failed"

CommandStatus == {CMD_PENDING, CMD_EXECUTING, CMD_COMPLETED, CMD_FAILED}

\* `x or default` of an optional list or dict argument: None and the empty
\* list or dict are falsy
OrDefault(x, default) ==
    IF x.is_none THEN default
    ELSE IF DOMAIN x.value = {} THEN default
    ELSE x.value

\* dict.get(key, default)
DictGet(d, key, default) == IF key \in DOMAIN d THEN d[key] ELSE default

----------------------------------------------------------------------------
(* The inputs the calls are made with *)

\* the ids of the missions the calls are about
MissionIds == {"LUNAR_001", "SAT_001"}

\* create_mission(id, "Lunar Base Setup", [...])
LunarInput ==
    [ name |-> "Lunar Base Setup",
      objectives |-> Arg(<<"Land on Moon", "Deploy equipment", "Establish base">>) ]

\* create_mission(id, "Duplicate Mission")
DuplicateInput == [name |-> "Duplicate Mission", objectives |-> NoneArg]

CreateInputs == {LunarInput, DuplicateInput}

\* send_command(id, "ignition")
IgnitionInput == [type |-> "ignition", parameters |-> NoneArg]

\* send_command(id, "unknown_command")
UnknownInput == [type |-> "unknown_command", parameters |-> NoneArg]

CommandInputs ==
    { IgnitionInput,
      [type |-> "ignition", parameters |-> Arg(<<>>)],
      [type |-> "adjust_course", parameters |-> Arg([heading |-> "90 degrees"])],
      [type |-> "adjust_course", parameters |-> NoneArg],
      [type |-> "collect_sample", parameters |-> Arg([location |-> "Test Site"])],
      UnknownInput }

\* add_telemetry(id, 1000.0, 50.0, 90.0)
DefaultHealthInput ==
    [altitude |-> 1000, velocity |-> 50, fuel_level |-> 90,
     system_health |-> Omitted]

\* add_telemetry(id, 25000.0, 800.0, 90.0, "en_route_moon")
EnRouteInput ==
    [altitude |-> 25000, velocity |-> 800, fuel_level |-> 90,
     system_health |-> "en_route_moon"]

TelemetryInputs == {DefaultHealthInput, EnRouteInput}

\* add_telemetry(id, 100.0, 10.0, 90.0, "nominal")
NominalInput ==
    [altitude |-> 100, velocity |-> 10, fuel_level |-> 90,
     system_health |-> "nominal"]

\* create_mission(id, "Complete Lifecycle Test", ["Launch", "Navigate", "Land"])
LifecycleInput ==
    [ name |-> "Complete Lifecycle Test",
      objectives |-> Arg(<<"Launch", "Navigate", "Land">>) ]

LifecycleCreateInputs == {LifecycleInput, LunarInput, DuplicateInput}

\* the mission ids of a mission taken from its creation to its completion
LifecycleIds == {"M1", "LIFECYCLE_001"}

\* the values datetime.now().isoformat() gives as the clock advances
ClockReadings == <<"2026-11-02T10:00:00.000000", "2026-11-02T10:00:01.000000">>

----------------------------------------------------------------------------
(* f"cmd_{n:04d}" *)

DigitChars == <<"0", "1", "2", "3", "4", "5", "6", "7", "8", "9">>

RECURSIVE DecimalDigits(_)
\* str(n) for n >= 0
DecimalDigits(n) ==
    IF n < 10 THEN DigitChars[n + 1]
    ELSE DecimalDigits(n \div 10) \o DigitChars[(n % 10) + 1]

RECURSIVE NumDigits(_)
NumDigits(n) == IF n < 10 THEN 1 ELSE 1 + NumDigits(n \div 10)

RECURSIVE Zeros(_)
Zeros(k) == IF k <= 0 THEN "" ELSE "0" \o Zeros(k - 1)

\* format(n, "04d"): zero-padded to a width of at least four
Format04d(n) == Zeros(4 - NumDigits(n)) \o DecimalDigits(n)

\* the ids counted from zero
NewCommandId_from_zero(n) == "cmd_" \o Format04d(n)

\* the id send_command gives a command of a mission that holds n commands
NewCommandId(n) == "cmd_" \o Format04d(n + 1)

\* the command ids the calls of execute_command are made with: those the
\* bound lets exist, and one more that never exists
CommandIds == { "cmd_" \o Format04d(k) : k \in 1 .. (MaxRecords + 1) }

----------------------------------------------------------------------------
(* The dataclasses *)

\* Mission(id=..., name=..., status=..., objectives=...) and __post_init__
Mission(mission_id, name, status, objectives) ==
    [ id |-> mission_id,
      name |-> name,
      status |-> status,
      start_time |-> None,
      end_time |-> None,
      objectives |-> objectives,
      telemetry |-> <<>>,
      commands |-> <<>> ]

\* Command(id=..., type=..., parameters=..., status=..., timestamp=...)
Command(command_id, type, parameters, status, timestamp) ==
    [ id |-> command_id,
      type |-> type,
      parameters |-> parameters,
      status |-> status,
      timestamp |-> timestamp,
      result |-> None ]

\* Telemetry(timestamp=..., altitude=..., ...)
Telemetry(timestamp, altitude, velocity, fuel_level, system_health) ==
    [ timestamp |-> timestamp,
      altitude |-> altitude,
      velocity |-> velocity,
      fuel_level |-> fuel_level,
      system_health |-> system_health ]

----------------------------------------------------------------------------
(* The outcome of a call *)

\* no call is in progress
NoCall ==
    [ op |-> "none", mission_id |-> None, command_id |-> None,
      raised |-> None, value |-> None ]

\* `return value`
Returns(op, mission_id, command_id, value) ==
    [ op |-> op, mission_id |-> mission_id, command_id |-> command_id,
      raised |-> None, value |-> value ]

\* `raise ValueError(message)`
RaisesValueError(op, mission_id, command_id, message) ==
    [ op |-> op, mission_id |-> mission_id, command_id |-> command_id,
      raised |-> message, value |-> None ]

\* f"Mission {mission_id} not found"
NotFoundMessage(mission_id) == "Mission " \o mission_id \o " not found"

\* the registry a call leaves and the outcome it gives its caller
Outcome(new_missions, new_keys, new_active, outcome) ==
    [ missions |-> new_missions, missions_keys |-> new_keys,
      active_mission |-> new_active, ret |-> outcome ]

\* a call that leaves the registry as it is
Unchanged(outcome) ==
    Outcome(missions, missions_keys, active_mission, outcome)

\* datetime.now().isoformat()
datetime_now == ClockReadings[clock]

----------------------------------------------------------------------------
(* MissionControl: each method as the registry it leaves and its outcome *)

\* create_mission without its check of the id: the record is overwritten
create_mission_overwriting(mission_id, name, objectives) ==
    LET mission == Mission(mission_id, name, PLANNED,
                           OrDefault(objectives, <<>>))
    IN Outcome((mission_id :> mission) @@ missions,
               IF mission_id \in DOMAIN missions THEN missions_keys
               ELSE Append(missions_keys, mission_id),
               active_mission,
               Returns("create_mission", mission_id, None, mission))

\* MissionControl.create_mission
create_mission(mission_id, name, objectives) ==
    IF mission_id \in DOMAIN missions THEN
        Unchanged(RaisesValueError("create_mission", mission_id, None,
                     "Mission " \o mission_id \o " already exists"))
    ELSE
        LET mission == Mission(mission_id, name, PLANNED,
                               OrDefault(objectives, <<>>))
        IN Outcome((mission_id :> mission) @@ missions,
                   Append(missions_keys, mission_id),
                   active_mission,
                   Returns("create_mission", mission_id, None, mission))

\* start_mission forgetting the active-mission pointer
start_mission_pointer_unset(mission_id) ==
    IF mission_id \notin DOMAIN missions THEN
        Unchanged(RaisesValueError("start_mission", mission_id, None,
                                   NotFoundMessage(mission_id)))
    ELSE IF missions[mission_id].status # PLANNED THEN
        Unchanged(Returns("start_mission", mission_id, None, FALSE))
    ELSE
        Outcome([missions EXCEPT ![mission_id].status = ACTIVE,
                                 ![mission_id].start_time = datetime_now],
                missions_keys,
                active_mission,
                Returns("start_mission", mission_id, None, TRUE))

\* start_mission refusing only a mission that is active
start_mission_restartable(mission_id) ==
    IF mission_id \notin DOMAIN missions THEN
        Unchanged(RaisesValueError("start_mission", mission_id, None,
                                   NotFoundMessage(mission_id)))
    ELSE IF missions[mission_id].status = ACTIVE THEN
        Unchanged(Returns("start_mission", mission_id, None, FALSE))
    ELSE
        Outcome([missions EXCEPT ![mission_id].status = ACTIVE,
                                 ![mission_id].start_time = datetime_now],
                missions_keys,
                mission_id,
                Returns("start_mission", mission_id, None, TRUE))

\* start_mission refusing to start a mission while another is the active one
start_mission_single_active(mission_id) ==
    IF mission_id \notin DOMAIN missions THEN
        Unchanged(RaisesValueError("start_mission", mission_id, None,
                                   NotFoundMessage(mission_id)))
    ELSE IF missions[mission_id].status # PLANNED THEN
        Unchanged(Returns("start_mission", mission_id, None, FALSE))
    ELSE IF active_mission # None THEN
        Unchanged(Returns("start_mission", mission_id, None, FALSE))
    ELSE
        Outcome([missions EXCEPT ![mission_id].status = ACTIVE,
                                 ![mission_id].start_time = datetime_now],
                missions_keys,
                mission_id,
                Returns("start_mission", mission_id, None, TRUE))

\* MissionControl.start_mission
start_mission(mission_id) ==
    IF mission_id \notin DOMAIN missions THEN
        Unchanged(RaisesValueError("start_mission", mission_id, None,
                                   NotFoundMessage(mission_id)))
    ELSE IF missions[mission_id].status # PLANNED THEN
        Unchanged(Returns("start_mission", mission_id, None, FALSE))
    ELSE
        Outcome([missions EXCEPT ![mission_id].status = ACTIVE,
                                 ![mission_id].start_time = datetime_now],
                missions_keys,
                mission_id,
                Returns("start_mission", mission_id, None, TRUE))

\* abort_mission accepting a mission that was never started
abort_mission_from_planned(mission_id) ==
    IF mission_id \notin DOMAIN missions THEN
        Unchanged(RaisesValueError("abort_mission", mission_id, None,
                                   NotFoundMessage(mission_id)))
    ELSE IF missions[mission_id].status \notin {PLANNED, ACTIVE} THEN
        Unchanged(Returns("abort_mission", mission_id, None, FALSE))
    ELSE
        Outcome([missions EXCEPT ![mission_id].status = ABORTED,
                                 ![mission_id].end_time = datetime_now],
                missions_keys,
                IF active_mission = mission_id THEN None ELSE active_mission,
                Returns("abort_mission", mission_id, None, TRUE))

\* abort_mission without the stamp of the end time
abort_mission_unstamped(mission_id) ==
    IF mission_id \notin DOMAIN missions THEN
        Unchanged(RaisesValueError("abort_mission", mission_id, None,
                                   NotFoundMessage(mission_id)))
    ELSE IF missions[mission_id].status # ACTIVE THEN
        Unchanged(Returns("abort_mission", mission_id, None, FALSE))
    ELSE
        Outcome([missions EXCEPT ![mission_id].status = ABORTED],
                missions_keys,
                IF active_mission = mission_id THEN None ELSE active_mission,
                Returns("abort_mission", mission_id, None, TRUE))

\* MissionControl.abort_mission
abort_mission(mission_id) ==
    IF mission_id \notin DOMAIN missions THEN
        Unchanged(RaisesValueError("abort_mission", mission_id, None,
                                   NotFoundMessage(mission_id)))
    ELSE IF missions[mission_id].status # ACTIVE THEN
        Unchanged(Returns("abort_mission", mission_id, None, FALSE))
    ELSE
        Outcome([missions EXCEPT ![mission_id].status = ABORTED,
                                 ![mission_id].end_time = datetime_now],
                missions_keys,
                IF active_mission = mission_id THEN None ELSE active_mission,
                Returns("abort_mission", mission_id, None, TRUE))

\* complete_mission stamping the end time of a mission that has ended too
complete_mission_restamping(mission_id) ==
    IF mission_id \notin DOMAIN missions THEN
        Unchanged(RaisesValueError("complete_mission", mission_id, None,
                                   NotFoundMessage(mission_id)))
    ELSE IF missions[mission_id].status = PLANNED THEN
        Unchanged(Returns("complete_mission", mission_id, None, FALSE))
    ELSE
        Outcome([missions EXCEPT ![mission_id].status = COMPLETED,
                                 ![mission_id].end_time = datetime_now],
                missions_keys,
                IF active_mission = mission_id THEN None ELSE active_mission,
                Returns("complete_mission", mission_id, None, TRUE))

\* complete_mission dropping the mission from the registry
complete_mission_deleting(mission_id) ==
    IF mission_id \notin DOMAIN missions THEN
        Unchanged(RaisesValueError("complete_mission", mission_id, None,
                                   NotFoundMessage(mission_id)))
    ELSE IF missions[mission_id].status # ACTIVE THEN
        Unchanged(Returns("complete_mission", mission_id, None, FALSE))
    ELSE
        Outcome([ k \in DOMAIN missions \ {mission_id} |-> missions[k] ],
                SelectSeq(missions_keys, LAMBDA k : k # mission_id),
                IF active_mission = mission_id THEN None ELSE active_mission,
                Returns("complete_mission", mission_id, None, TRUE))

\* complete_mission clearing the active-mission pointer whatever it holds
complete_mission_clearing_pointer(mission_id) ==
    IF mission_id \notin DOMAIN missions THEN
        Unchanged(RaisesValueError("complete_mission", mission_id, None,
                                   NotFoundMessage(mission_id)))
    ELSE IF missions[mission_id].status # ACTIVE THEN
        Unchanged(Returns("complete_mission", mission_id, None, FALSE))
    ELSE
        Outcome([missions EXCEPT ![mission_id].status = COMPLETED,
                                 ![mission_id].end_time = datetime_now],
                missions_keys,
                None,
                Returns("complete_mission", mission_id, None, TRUE))

\* complete_mission moving the active-mission pointer to a mission that is
\* still active, when there is one
complete_mission_repointing(mission_id) ==
    IF mission_id \notin DOMAIN missions THEN
        Unchanged(RaisesValueError("complete_mission", mission_id, None,
                                   NotFoundMessage(mission_id)))
    ELSE IF missions[mission_id].status # ACTIVE THEN
        Unchanged(Returns("complete_mission", mission_id, None, FALSE))
    ELSE
        LET still_active == { k \in DOMAIN missions \ {mission_id} :
                                 missions[k].status = ACTIVE }
        IN Outcome([missions EXCEPT ![mission_id].status = COMPLETED,
                                    ![mission_id].end_time = datetime_now],
                   missions_keys,
                   IF active_mission # mission_id THEN active_mission
                   ELSE IF still_active = {} THEN None
                   ELSE CHOOSE k \in still_active : TRUE,
                   Returns("complete_mission", mission_id, None, TRUE))

\* complete_mission leaving the active-mission pointer as it is
complete_mission_keeping_pointer(mission_id) ==
    IF mission_id \notin DOMAIN missions THEN
        Unchanged(RaisesValueError("complete_mission", mission_id, None,
                                   NotFoundMessage(mission_id)))
    ELSE IF missions[mission_id].status # ACTIVE THEN
        Unchanged(Returns("complete_mission", mission_id, None, FALSE))
    ELSE
        Outcome([missions EXCEPT ![mission_id].status = COMPLETED,
                                 ![mission_id].end_time = datetime_now],
                missions_keys,
                active_mission,
                Returns("complete_mission", mission_id, None, TRUE))

\* complete_mission ending a mission that holds a failed command as failed
complete_mission_failing(mission_id) ==
    IF mission_id \notin DOMAIN missions THEN
        Unchanged(RaisesValueError("complete_mission", mission_id, None,
                                   NotFoundMessage(mission_id)))
    ELSE IF missions[mission_id].status # ACTIVE THEN
        Unchanged(Returns("complete_mission", mission_id, None, FALSE))
    ELSE
        LET commands == missions[mission_id].commands
            failed == \E i \in DOMAIN commands : commands[i].status = CMD_FAILED
        IN Outcome([missions EXCEPT
                       ![mission_id].status = IF failed THEN FAILED
                                              ELSE COMPLETED,
                       ![mission_id].end_time = datetime_now],
                   missions_keys,
                   IF active_mission = mission_id THEN None ELSE active_mission,
                   Returns("complete_mission", mission_id, None, TRUE))

\* MissionControl.complete_mission
complete_mission(mission_id) ==
    IF mission_id \notin DOMAIN missions THEN
        Unchanged(RaisesValueError("complete_mission", mission_id, None,
                                   NotFoundMessage(mission_id)))
    ELSE IF missions[mission_id].status # ACTIVE THEN
        Unchanged(Returns("complete_mission", mission_id, None, FALSE))
    ELSE
        Outcome([missions EXCEPT ![mission_id].status = COMPLETED,
                                 ![mission_id].end_time = datetime_now],
                missions_keys,
                IF active_mission = mission_id THEN None ELSE active_mission,
                Returns("complete_mission", mission_id, None, TRUE))

\* send_command refusing only a mission that has ended
send_command_unless_ended(mission_id, command_type, parameters) ==
    IF mission_id \notin DOMAIN missions THEN
        Unchanged(RaisesValueError("send_command", mission_id, None,
                                   NotFoundMessage(mission_id)))
    ELSE IF missions[mission_id].status \in {COMPLETED, ABORTED} THEN
        Unchanged(RaisesValueError("send_command", mission_id, None,
                     "Cannot send commands to inactive mission " \o mission_id))
    ELSE
        LET mission == missions[mission_id]
            command_id == NewCommandId(Len(mission.commands))
            command == Command(command_id, command_type,
                               OrDefault(parameters, <<>>), CMD_PENDING,
                               datetime_now)
        IN Outcome([missions EXCEPT ![mission_id].commands = Append(@, command)],
                   missions_keys,
                   active_mission,
                   Returns("send_command", mission_id, None, command_id))

\* send_command putting the command first in the list
send_command_prepending(mission_id, command_type, parameters) ==
    IF mission_id \notin DOMAIN missions THEN
        Unchanged(RaisesValueError("send_command", mission_id, None,
                                   NotFoundMessage(mission_id)))
    ELSE IF missions[mission_id].status # ACTIVE THEN
        Unchanged(RaisesValueError("send_command", mission_id, None,
                     "Cannot send commands to inactive mission " \o mission_id))
    ELSE
        LET mission == missions[mission_id]
            command_id == NewCommandId(Len(mission.commands))
            command == Command(command_id, command_type,
                               OrDefault(parameters, <<>>), CMD_PENDING,
                               datetime_now)
        IN Outcome([missions EXCEPT ![mission_id].commands = <<command>> \o @],
                   missions_keys,
                   active_mission,
                   Returns("send_command", mission_id, None, command_id))

\* send_command numbering a command after the commands still pending
send_command_counting_pending(mission_id, command_type, parameters) ==
    IF mission_id \notin DOMAIN missions THEN
        Unchanged(RaisesValueError("send_command", mission_id, None,
                                   NotFoundMessage(mission_id)))
    ELSE IF missions[mission_id].status # ACTIVE THEN
        Unchanged(RaisesValueError("send_command", mission_id, None,
                     "Cannot send commands to inactive mission " \o mission_id))
    ELSE
        LET mission == missions[mission_id]
            pending == { i \in DOMAIN mission.commands :
                            mission.commands[i].status = CMD_PENDING }
            command_id == NewCommandId(Cardinality(pending))
            command == Command(command_id, command_type,
                               OrDefault(parameters, <<>>), CMD_PENDING,
                               datetime_now)
        IN Outcome([missions EXCEPT ![mission_id].commands = Append(@, command)],
                   missions_keys,
                   active_mission,
                   Returns("send_command", mission_id, None, command_id))

\* MissionControl.send_command
send_command(mission_id, command_type, parameters) ==
    IF mission_id \notin DOMAIN missions THEN
        Unchanged(RaisesValueError("send_command", mission_id, None,
                                   NotFoundMessage(mission_id)))
    ELSE IF missions[mission_id].status # ACTIVE THEN
        Unchanged(RaisesValueError("send_command", mission_id, None,
                     "Cannot send commands to inactive mission " \o mission_id))
    ELSE
        LET mission == missions[mission_id]
            command_id == NewCommandId(Len(mission.commands))
            command == Command(command_id, command_type,
                               OrDefault(parameters, <<>>), CMD_PENDING,
                               datetime_now)
        IN Outcome([missions EXCEPT ![mission_id].commands = Append(@, command)],
                   missions_keys,
                   active_mission,
                   Returns("send_command", mission_id, None, command_id))

\* the loop of execute_command: the position of the first command at or
\* after position i whose id is command_id, 0 when there is none
RECURSIVE FindCommand(_, _, _)
FindCommand(commands, command_id, i) ==
    IF i > Len(commands) THEN 0
    ELSE IF commands[i].id = command_id THEN i
    ELSE FindCommand(commands, command_id, i + 1)

\* the dispatch with the type "collect_sample" misspelt
Resolve_collect_misspelt(command) ==
    LET executing == [command EXCEPT !.status = CMD_EXECUTING]
    IN IF executing.type = "ignition" THEN
          [executing EXCEPT !.result = "Engine ignited successfully",
                            !.status = CMD_COMPLETED]
       ELSE IF executing.type = "adjust_course" THEN
          [executing EXCEPT
              !.result = "Course adjusted to "
                            \o DictGet(executing.parameters, "heading", "unknown"),
              !.status = CMD_COMPLETED]
       ELSE IF executing.type = "collect_samples" THEN
          [executing EXCEPT
              !.result = "Sample collected at "
                            \o DictGet(executing.parameters, "location", "unknown"),
              !.status = CMD_COMPLETED]
       ELSE
          [executing EXCEPT
              !.result = "Unknown command type: " \o executing.type,
              !.status = CMD_FAILED]

\* the dispatch leaving a command of an unknown type as it is, executing
Resolve_unknown_left_executing(command) ==
    LET executing == [command EXCEPT !.status = CMD_EXECUTING]
    IN IF executing.type = "ignition" THEN
          [executing EXCEPT !.result = "Engine ignited successfully",
                            !.status = CMD_COMPLETED]
       ELSE IF executing.type = "adjust_course" THEN
          [executing EXCEPT
              !.result = "Course adjusted to "
                            \o DictGet(executing.parameters, "heading", "unknown"),
              !.status = CMD_COMPLETED]
       ELSE IF executing.type = "collect_sample" THEN
          [executing EXCEPT
              !.result = "Sample collected at "
                            \o DictGet(executing.parameters, "location", "unknown"),
              !.status = CMD_COMPLETED]
       ELSE
          executing

\* the dispatch of execute_command on the type of a command: the command
\* as the call leaves it
Resolve(command) ==
    LET executing == [command EXCEPT !.status = CMD_EXECUTING]
    IN IF executing.type = "ignition" THEN
          [executing EXCEPT !.result = "Engine ignited successfully",
                            !.status = CMD_COMPLETED]
       ELSE IF executing.type = "adjust_course" THEN
          [executing EXCEPT
              !.result = "Course adjusted to "
                            \o DictGet(executing.parameters, "heading", "unknown"),
              !.status = CMD_COMPLETED]
       ELSE IF executing.type = "collect_sample" THEN
          [executing EXCEPT
              !.result = "Sample collected at "
                            \o DictGet(executing.parameters, "location", "unknown"),
              !.status = CMD_COMPLETED]
       ELSE
          [executing EXCEPT
              !.result = "Unknown command type: " \o executing.type,
              !.status = CMD_FAILED]

\* execute_command marking a command it is asked to run again as failed
execute_command_failing_repeat(mission_id, command_id) ==
    IF mission_id \notin DOMAIN missions THEN
        Unchanged(RaisesValueError("execute_command", mission_id, command_id,
                                   NotFoundMessage(mission_id)))
    ELSE
        LET i == FindCommand(missions[mission_id].commands, command_id, 1)
        IN IF i = 0 THEN
              Unchanged(RaisesValueError("execute_command", mission_id,
                           command_id, "Command " \o command_id \o " not found"))
           ELSE IF missions[mission_id].commands[i].status # CMD_PENDING THEN
              Outcome([missions EXCEPT
                          ![mission_id].commands[i].status = CMD_FAILED,
                          ![mission_id].commands[i].result =
                              "Command already executed"],
                      missions_keys,
                      active_mission,
                      Returns("execute_command", mission_id, command_id, FALSE))
           ELSE
              LET command == Resolve(missions[mission_id].commands[i])
              IN Outcome([missions EXCEPT ![mission_id].commands[i] = command],
                         missions_keys,
                         active_mission,
                         Returns("execute_command", mission_id, command_id,
                                 command.status = CMD_COMPLETED))

\* execute_command returning False for a command id the mission does not hold
execute_command_false_when_missing(mission_id, command_id) ==
    IF mission_id \notin DOMAIN missions THEN
        Unchanged(RaisesValueError("execute_command", mission_id, command_id,
                                   NotFoundMessage(mission_id)))
    ELSE
        LET i == FindCommand(missions[mission_id].commands, command_id, 1)
        IN IF i = 0 THEN
              Unchanged(Returns("execute_command", mission_id, command_id, FALSE))
           ELSE IF missions[mission_id].commands[i].status # CMD_PENDING THEN
              Unchanged(Returns("execute_command", mission_id, command_id, FALSE))
           ELSE
              LET command == Resolve(missions[mission_id].commands[i])
              IN Outcome([missions EXCEPT ![mission_id].commands[i] = command],
                         missions_keys,
                         active_mission,
                         Returns("execute_command", mission_id, command_id,
                                 command.status = CMD_COMPLETED))

\* execute_command refusing a command of a mission that is not active
execute_command_active_only(mission_id, command_id) ==
    IF mission_id \notin DOMAIN missions THEN
        Unchanged(RaisesValueError("execute_command", mission_id, command_id,
                                   NotFoundMessage(mission_id)))
    ELSE
        LET i == FindCommand(missions[mission_id].commands, command_id, 1)
        IN IF i = 0 THEN
              Unchanged(RaisesValueError("execute_command", mission_id,
                           command_id, "Command " \o command_id \o " not found"))
           ELSE IF missions[mission_id].commands[i].status # CMD_PENDING THEN
              Unchanged(Returns("execute_command", mission_id, command_id, FALSE))
           ELSE IF missions[mission_id].status # ACTIVE THEN
              Unchanged(Returns("execute_command", mission_id, command_id, FALSE))
           ELSE
              LET command == Resolve(missions[mission_id].commands[i])
              IN Outcome([missions EXCEPT ![mission_id].commands[i] = command],
                         missions_keys,
                         active_mission,
                         Returns("execute_command", mission_id, command_id,
                                 command.status = CMD_COMPLETED))

\* execute_command running the pending command of that id of every mission
execute_command_every_mission(mission_id, command_id) ==
    IF mission_id \notin DOMAIN missions THEN
        Unchanged(RaisesValueError("execute_command", mission_id, command_id,
                                   NotFoundMessage(mission_id)))
    ELSE
        LET i == FindCommand(missions[mission_id].commands, command_id, 1)
        IN IF i = 0 THEN
              Unchanged(RaisesValueError("execute_command", mission_id,
                           command_id, "Command " \o command_id \o " not found"))
           ELSE IF missions[mission_id].commands[i].status # CMD_PENDING THEN
              Unchanged(Returns("execute_command", mission_id, command_id, FALSE))
           ELSE
              LET command == Resolve(missions[mission_id].commands[i])
                  Run(commands) ==
                      [ j \in DOMAIN commands |->
                          IF /\ commands[j].id = command_id
                             /\ commands[j].status = CMD_PENDING
                          THEN Resolve(commands[j])
                          ELSE commands[j] ]
              IN Outcome([ k \in DOMAIN missions |->
                             [missions[k] EXCEPT !.commands = Run(@)] ],
                         missions_keys,
                         active_mission,
                         Returns("execute_command", mission_id, command_id,
                                 command.status = CMD_COMPLETED))

\* MissionControl.execute_command
execute_command(mission_id, command_id) ==
    IF mission_id \notin DOMAIN missions THEN
        Unchanged(RaisesValueError("execute_command", mission_id, command_id,
                                   NotFoundMessage(mission_id)))
    ELSE
        LET i == FindCommand(missions[mission_id].commands, command_id, 1)
        IN IF i = 0 THEN
              Unchanged(RaisesValueError("execute_command", mission_id,
                           command_id, "Command " \o command_id \o " not found"))
           ELSE IF missions[mission_id].commands[i].status # CMD_PENDING THEN
              Unchanged(Returns("execute_command", mission_id, command_id, FALSE))
           ELSE
              LET command == Resolve(missions[mission_id].commands[i])
              IN Outcome([missions EXCEPT ![mission_id].commands[i] = command],
                         missions_keys,
                         active_mission,
                         Returns("execute_command", mission_id, command_id,
                                 command.status = CMD_COMPLETED))

\* add_telemetry refusing a mission that is not active
add_telemetry_active_only(mission_id, altitude, velocity, fuel_level, system_health) ==
    IF mission_id \notin DOMAIN missions THEN
        Unchanged(RaisesValueError("add_telemetry", mission_id, None,
                                   NotFoundMessage(mission_id)))
    ELSE IF missions[mission_id].status # ACTIVE THEN
        Unchanged(RaisesValueError("add_telemetry", mission_id, None,
                     "Cannot add telemetry to inactive mission " \o mission_id))
    ELSE
        LET health == IF system_health = Omitted THEN DefaultHealth
                      ELSE system_health
            telemetry == Telemetry(datetime_now, altitude, velocity,
                                   fuel_level, health)
        IN Outcome([missions EXCEPT ![mission_id].telemetry =
                                       Append(@, telemetry)],
                   missions_keys,
                   active_mission,
                   Returns("add_telemetry", mission_id, None, None))

\* add_telemetry keeping the latest record only
add_telemetry_replacing(mission_id, altitude, velocity, fuel_level, system_health) ==
    IF mission_id \notin DOMAIN missions THEN
        Unchanged(RaisesValueError("add_telemetry", mission_id, None,
                                   NotFoundMessage(mission_id)))
    ELSE
        LET health == IF system_health = Omitted THEN DefaultHealth
                      ELSE system_health
            telemetry == Telemetry(datetime_now, altitude, velocity,
                                   fuel_level, health)
        IN Outcome([missions EXCEPT ![mission_id].telemetry = <<telemetry>>],
                   missions_keys,
                   active_mission,
                   Returns("add_telemetry", mission_id, None, None))

\* MissionControl.add_telemetry; system_health is Omitted when the caller
\* leaves it to its default
add_telemetry(mission_id, altitude, velocity, fuel_level, system_health) ==
    IF mission_id \notin DOMAIN missions THEN
        Unchanged(RaisesValueError("add_telemetry", mission_id, None,
                                   NotFoundMessage(mission_id)))
    ELSE
        LET health == IF system_health = Omitted THEN DefaultHealth
                      ELSE system_health
            telemetry == Telemetry(datetime_now, altitude, velocity,
                                   fuel_level, health)
        IN Outcome([missions EXCEPT ![mission_id].telemetry =
                                       Append(@, telemetry)],
                   missions_keys,
                   active_mission,
                   Returns("add_telemetry", mission_id, None, None))

\* the count taking every command, whatever its status
CountCommands_any_status(commands, statuses) ==
    Cardinality({ i \in DOMAIN commands : commands[i].status \in CommandStatus })

\* len([cmd for cmd in commands if cmd.status in statuses])
CountCommands(commands, statuses) ==
    Cardinality({ i \in DOMAIN commands : commands[i].status \in statuses })

\* the dictionary with the first telemetry record as the latest
MissionStatusReport_first_telemetry(mission) ==
    [ mission |-> mission,
      active_commands |->
          CountCommands(mission.commands, {CMD_PENDING, CMD_EXECUTING}),
      completed_commands |-> CountCommands(mission.commands, {CMD_COMPLETED}),
      failed_commands |-> CountCommands(mission.commands, {CMD_FAILED}),
      latest_telemetry |->
          IF mission.telemetry # <<>>
          THEN <<mission.telemetry[1]>>
          ELSE <<>> ]

\* the dictionary get_mission_status returns; latest_telemetry is a
\* sequence holding the last record, empty for Python's None
MissionStatusReport(mission) ==
    [ mission |-> mission,
      active_commands |->
          CountCommands(mission.commands, {CMD_PENDING, CMD_EXECUTING}),
      completed_commands |-> CountCommands(mission.commands, {CMD_COMPLETED}),
      failed_commands |-> CountCommands(mission.commands, {CMD_FAILED}),
      latest_telemetry |->
          IF mission.telemetry # <<>>
          THEN <<mission.telemetry[Len(mission.telemetry)]>>
          ELSE <<>> ]

\* MissionControl.get_mission_status
get_mission_status(mission_id) ==
    IF mission_id \notin DOMAIN missions THEN
        Unchanged(RaisesValueError("get_mission_status", mission_id, None,
                                   NotFoundMessage(mission_id)))
    ELSE
        Unchanged(Returns("get_mission_status", mission_id, None,
                          MissionStatusReport(missions[mission_id])))

\* one entry of the list get_all_missions returns
MissionSummary(mission) ==
    [ id |-> mission.id,
      name |-> mission.name,
      status |-> mission.status,
      start_time |-> mission.start_time,
      end_time |-> mission.end_time,
      commands_count |-> Len(mission.commands),
      telemetry_count |-> Len(mission.telemetry) ]

\* get_all_missions listing the newest mission first
get_all_missions_newest_first ==
    Unchanged(Returns("get_all_missions", None, None,
                 [ k \in DOMAIN missions_keys |->
                      MissionSummary(missions[
                          missions_keys[Len(missions_keys) + 1 - k]]) ]))

\* MissionControl.get_all_missions
get_all_missions ==
    Unchanged(Returns("get_all_missions", None, None,
                 [ k \in DOMAIN missions_keys |->
                      MissionSummary(missions[missions_keys[k]]) ]))

----------------------------------------------------------------------------
(* The caller: one call at a time, each returning before the next *)

\* the number of commands and telemetry records held by the missions ids
RECURSIVE RecordsOf(_)
RecordsOf(ids) ==
    IF ids = {} THEN 0
    ELSE LET i == CHOOSE x \in ids : TRUE
         IN Len(missions[i].commands) + Len(missions[i].telemetry)
               + RecordsOf(ids \ {i})

TotalRecords == RecordsOf(DOMAIN missions)

\* the call whose outcome is r is made and the registry is left as r says
Call(r) ==
    /\ ret.op = NoCall.op
    /\ missions' = r.missions
    /\ missions_keys' = r.missions_keys
    /\ active_mission' = r.active_mission
    /\ ret' = r.ret
    /\ UNCHANGED clock

\* MissionControl.__init__
Init ==
    /\ missions = <<>>
    /\ missions_keys = <<>>
    /\ active_mission = None
    /\ clock = 1
    /\ ret = NoCall

CreateMission(ids, inputs) ==
    \E mission_id \in ids, c \in inputs :
        Call(create_mission(mission_id, c.name, c.objectives))

StartMission(ids) == \E mission_id \in ids : Call(start_mission(mission_id))

AbortMission(ids) == \E mission_id \in ids : Call(abort_mission(mission_id))

CompleteMission(ids) ==
    \E mission_id \in ids : Call(complete_mission(mission_id))

SendCommand(ids, inputs, max_records) ==
    \E mission_id \in ids, c \in inputs :
        LET r == send_command(mission_id, c.type, c.parameters)
        IN /\ r.ret.raised = None => TotalRecords < max_records
           /\ Call(r)

ExecuteCommand(ids) ==
    \E mission_id \in ids, command_id \in CommandIds :
        Call(execute_command(mission_id, command_id))

AddTelemetry(ids, inputs, max_records) ==
    \E mission_id \in ids, t \in inputs :
        LET r == add_telemetry(mission_id, t.altitude, t.velocity,
                               t.fuel_level, t.system_health)
        IN /\ r.ret.raised = None => TotalRecords < max_records
           /\ Call(r)

GetMissionStatus(ids) ==
    \E mission_id \in ids : Call(get_mission_status(mission_id))

GetAllMissions == Call(get_all_missions)

\* the caller takes the outcome of its call
Return ==
    /\ ret.op # NoCall.op
    /\ ret' = NoCall
    /\ UNCHANGED <<missions, missions_keys, active_mission, clock>>

\* time passes
Tick ==
    /\ ret.op = NoCall.op
    /\ clock < Len(ClockReadings)
    /\ clock' = clock + 1
    /\ UNCHANGED <<missions, missions_keys, active_mission, ret>>

\* the calls a caller makes with mission ids of ids, create_mission with
\* the arguments creates, send_command with the arguments commands and
\* add_telemetry with the arguments telemetries, until the missions hold
\* max_records commands and telemetry records
Calls(ids, creates, commands, telemetries, max_records) ==
    \/ CreateMission(ids, creates)
    \/ StartMission(ids)
    \/ AbortMission(ids)
    \/ CompleteMission(ids)
    \/ SendCommand(ids, commands, max_records)
    \/ ExecuteCommand(ids)
    \/ AddTelemetry(ids, telemetries, max_records)
    \/ GetMissionStatus(ids)
    \/ GetAllMissions
    \/ Return

\* two missions through their lifecycle while time passes
Next ==
    \/ Calls(MissionIds, CreateInputs, {IgnitionInput}, {DefaultHealthInput},
             MaxLifecycleRecords)
    \/ Tick

Spec == Init /\ [][Next]_vars

\* one mission given commands of every type
NextDispatch ==
    Calls({"LUNAR_001"}, {LunarInput}, CommandInputs, {DefaultHealthInput},
          MaxRecords)

SpecDispatch == Init /\ [][NextDispatch]_vars

\* two missions given commands that succeed and commands that fail
NextCommands ==
    Calls(MissionIds, {LunarInput}, {IgnitionInput, UnknownInput},
          {DefaultHealthInput}, MaxRecords)

SpecCommands == Init /\ [][NextCommands]_vars

\* two missions given telemetry with and without a system health, and
\* commands that succeed and commands that fail
NextTelemetry ==
    Calls(MissionIds, {LunarInput}, {IgnitionInput, UnknownInput},
          TelemetryInputs, MaxRecords)

SpecTelemetry == Init /\ [][NextTelemetry]_vars

\* the caller takes the outcome of its call to op and makes the call whose
\* outcome is r
After(op, r) ==
    /\ ret.op = op
    /\ ret.raised = None
    /\ missions' = r.missions
    /\ missions_keys' = r.missions_keys
    /\ active_mission' = r.active_mission
    /\ ret' = r.ret
    /\ UNCHANGED clock

LifecycleCreate ==
    \E mission_id \in LifecycleIds, c \in LifecycleCreateInputs :
        /\ missions = <<>>
        /\ Call(create_mission(mission_id, c.name, c.objectives))

LifecycleStart == After("create_mission", start_mission(ret.mission_id))

LifecycleSend ==
    After("start_mission",
          send_command(ret.mission_id, IgnitionInput.type,
                       IgnitionInput.parameters))

\* the command executed is the one whose id send_command returned
LifecycleExecute ==
    After("send_command", execute_command(ret.mission_id, ret.value))

LifecycleTelemetry ==
    After("execute_command",
          add_telemetry(ret.mission_id, NominalInput.altitude,
                        NominalInput.velocity, NominalInput.fuel_level,
                        NominalInput.system_health))

LifecycleComplete == After("add_telemetry", complete_mission(ret.mission_id))

LifecycleStatus ==
    After("complete_mission", get_mission_status(ret.mission_id))

\* time passes, between any two calls
LifecycleTick ==
    /\ clock < Len(ClockReadings)
    /\ clock' = clock + 1
    /\ UNCHANGED <<missions, missions_keys, active_mission, ret>>

\* one mission from its creation to its completion, then its status
NextLifecycle ==
    \/ LifecycleCreate
    \/ LifecycleStart
    \/ LifecycleSend
    \/ LifecycleExecute
    \/ LifecycleTelemetry
    \/ LifecycleComplete
    \/ LifecycleStatus
    \/ LifecycleTick

SpecLifecycle == Init /\ [][NextLifecycle]_vars

----------------------------------------------------------------------------
(* The claims *)

\* the registry r leaves is the registry as it is
RegistryKept(r) ==
    /\ r.missions = missions
    /\ r.missions_keys = missions_keys
    /\ r.active_mission = active_mission

\* the call left every mission but mission_id, and the set of missions, as
\* they are
OthersKept(r, mission_id) ==
    /\ DOMAIN r.missions = DOMAIN missions
    /\ r.missions_keys = missions_keys
    /\ \A other \in DOMAIN missions \ {mission_id} :
          r.missions[other] = missions[other]

\* C1: create_mission with an id the registry holds raises the ValueError
\* "Mission <id> already exists", whatever the name and objectives given and
\* whatever the status of the mission held, and leaves every mission, the
\* order of the missions and the active-mission pointer as they are.
C1_DuplicateCreateFails ==
    \A mission_id \in DOMAIN missions, c \in CreateInputs :
        LET r == create_mission(mission_id, c.name, c.objectives)
        IN /\ r.ret.raised = "Mission " \o mission_id \o " already exists"
           /\ RegistryKept(r)

\* C1 happens: a create_mission has just failed on the id of a mission that
\* is completed while the other mission is active.
C1_Witness ==
    /\ ret.op = "create_mission"
    /\ ret.raised # None
    /\ missions[ret.mission_id].status = COMPLETED
    /\ active_mission # None

\* C2: start_mission on a planned mission returns True, whatever the other
\* missions and the active-mission pointer are, and leaves the mission
\* active with a start_time, no end_time, and the pointer at the mission.
C2_StartPlannedSucceeds ==
    \A mission_id \in DOMAIN missions :
        missions[mission_id].status = PLANNED =>
            LET r == start_mission(mission_id)
            IN /\ r.ret.raised = None
               /\ r.ret.value = TRUE
               /\ r.missions[mission_id].status = ACTIVE
               /\ r.missions[mission_id].start_time # None
               /\ r.missions[mission_id].end_time = None
               /\ r.active_mission = mission_id
               /\ OthersKept(r, mission_id)

\* C2 happens: a start_mission has just returned True while the other
\* mission, started before it, is still active.
C2_Witness ==
    /\ ret.op = "start_mission"
    /\ ret.raised = None
    /\ ret.value = TRUE
    /\ active_mission = ret.mission_id
    /\ missions[ret.mission_id].status = ACTIVE
    /\ \E other \in DOMAIN missions \ {ret.mission_id} :
          missions[other].status = ACTIVE

\* C3: start_mission on a mission that is active, completed or aborted
\* returns False and leaves the whole registry as it is.
C3_StartNotPlannedIsNoOp ==
    \A mission_id \in DOMAIN missions :
        missions[mission_id].status # PLANNED =>
            LET r == start_mission(mission_id)
            IN /\ r.ret.raised = None
               /\ r.ret.value = FALSE
               /\ RegistryKept(r)

\* C3 happens: a start_mission has just returned False on a mission that is
\* completed or aborted, after the clock has advanced.
C3_Witness ==
    /\ ret.op = "start_mission"
    /\ ret.raised = None
    /\ ret.value = FALSE
    /\ missions[ret.mission_id].status \in {COMPLETED, ABORTED}
    /\ datetime_now # missions[ret.mission_id].start_time

\* what abort_mission (status ABORTED) and complete_mission (status
\* COMPLETED) are said to do to an active mission
EndsMission(r, mission_id, status) ==
    /\ r.ret.raised = None
    /\ r.ret.value = TRUE
    /\ r.missions[mission_id].status = status
    /\ r.missions[mission_id].end_time # None
    /\ r.missions[mission_id].start_time = missions[mission_id].start_time
    /\ r.active_mission =
          IF active_mission = mission_id THEN None ELSE active_mission
    /\ OthersKept(r, mission_id)

\* C4: abort_mission and complete_mission on an active mission return True,
\* set the status to aborted and completed, stamp an end_time, and clear the
\* active-mission pointer if it holds the mission and leave it otherwise.
C4_EndActiveSucceeds ==
    \A mission_id \in DOMAIN missions :
        missions[mission_id].status = ACTIVE =>
            /\ EndsMission(abort_mission(mission_id), mission_id, ABORTED)
            /\ EndsMission(complete_mission(mission_id), mission_id, COMPLETED)

\* C4 happens: a complete_mission has just returned True on a mission the
\* pointer did not hold, and the pointer still holds the other mission.
C4_Witness ==
    /\ ret.op = "complete_mission"
    /\ ret.raised = None
    /\ ret.value = TRUE
    /\ missions[ret.mission_id].status = COMPLETED
    /\ active_mission \in DOMAIN missions \ {ret.mission_id}

\* C5: abort_mission and complete_mission on a mission that is planned,
\* completed or aborted return False, raise nothing and leave the whole
\* registry as it is.
C5_EndNotActiveIsNoOp ==
    \A mission_id \in DOMAIN missions :
        missions[mission_id].status # ACTIVE =>
            /\ LET r == abort_mission(mission_id)
               IN r.ret.raised = None /\ r.ret.value = FALSE /\ RegistryKept(r)
            /\ LET r == complete_mission(mission_id)
               IN r.ret.raised = None /\ r.ret.value = FALSE /\ RegistryKept(r)

\* C5 happens: an abort_mission has just returned False on a mission that
\* is completed.
C5_Witness ==
    /\ ret.op = "abort_mission"
    /\ ret.raised = None
    /\ ret.value = FALSE
    /\ missions[ret.mission_id].status = COMPLETED

\* C6: send_command on a mission that is planned, completed or aborted
\* raises the ValueError "Cannot send commands to inactive mission <id>"
\* whatever the command; no command is appended, the number of commands,
\* from which the next id is taken, stays, and the registry is as it was.
C6_SendToInactiveFails ==
    \A mission_id \in DOMAIN missions, c \in CommandInputs :
        missions[mission_id].status # ACTIVE =>
            LET r == send_command(mission_id, c.type, c.parameters)
            IN /\ r.ret.raised =
                     "Cannot send commands to inactive mission " \o mission_id
               /\ Len(r.missions[mission_id].commands)
                     = Len(missions[mission_id].commands)
               /\ RegistryKept(r)

\* C6 happens: a send_command has just failed on a completed mission that
\* holds a command.
C6_Witness ==
    /\ ret.op = "send_command"
    /\ ret.raised # None
    /\ ret.mission_id \in DOMAIN missions
    /\ missions[ret.mission_id].status = COMPLETED
    /\ Len(missions[ret.mission_id].commands) >= 1

\* the parameters send_command stores for the argument given: the dict, an
\* empty dict when none is given
GivenParameters(parameters) ==
    IF parameters.is_none THEN <<>> ELSE parameters.value

\* C7: send_command on an active mission appends one command to the end of
\* the mission's commands, pending, of the type and parameters given, with
\* no result, and returns its id; the commands before it, the rest of the
\* mission, the other missions and the active-mission pointer stay.
C7_SendAppendsPending ==
    \A mission_id \in DOMAIN missions, c \in CommandInputs :
        missions[mission_id].status = ACTIVE =>
            LET r == send_command(mission_id, c.type, c.parameters)
                old == missions[mission_id].commands
                new == r.missions[mission_id].commands
                last == new[Len(new)]
            IN /\ r.ret.raised = None
               /\ Len(new) = Len(old) + 1
               /\ SubSeq(new, 1, Len(old)) = old
               /\ last.status = CMD_PENDING
               /\ last.type = c.type
               /\ last.parameters = GivenParameters(c.parameters)
               /\ last.result = None
               /\ r.ret.value = last.id
               /\ r.missions[mission_id]
                     = [missions[mission_id] EXCEPT !.commands = new]
               /\ r.active_mission = active_mission
               /\ OthersKept(r, mission_id)

\* C7 happens: a send_command has just returned the id of the second
\* command of a mission whose first command is resolved.
C7_Witness ==
    /\ ret.op = "send_command"
    /\ ret.raised = None
    /\ Len(missions[ret.mission_id].commands) = 2
    /\ missions[ret.mission_id].commands[2].id = ret.value
    /\ missions[ret.mission_id].commands[2].status = CMD_PENDING
    /\ missions[ret.mission_id].commands[1].status # CMD_PENDING

\* "cmd_" followed by k zero-padded to four digits, for k = 1, 2, ...
SequenceIds ==
    << "cmd_0001", "cmd_0002", "cmd_0003", "cmd_0004", "cmd_0005", "cmd_0006" >>

\* C8: in every step, a mission's commands grow by one when the step is a
\* send_command on the mission that succeeds and not at all otherwise, so the
\* k-th successful send_command meets k - 1 commands; it returns "cmd_"
\* followed by k zero-padded to four digits, and the command at position k
\* of the list has that id, whatever calls come between.
C8_SequentialCommandIds ==
    [][ /\ NewCommandId(9) = "cmd_0010"
        /\ NewCommandId(122) = "cmd_0123"
        /\ NewCommandId(9998) = "cmd_9999"
        /\ \A mission_id \in DOMAIN missions :
              LET old == missions[mission_id].commands
                  new == missions'[mission_id].commands
                  sent == /\ ret'.op = "send_command"
                          /\ ret'.raised = None
                          /\ ret'.mission_id = mission_id
              IN /\ Len(new) = IF sent THEN Len(old) + 1 ELSE Len(old)
                 /\ sent => ret'.value = SequenceIds[Len(old) + 1]
                 /\ \A k \in DOMAIN new : new[k].id = SequenceIds[k]
      ]_vars

\* C8 happens: the second send_command on a mission has just returned
\* "cmd_0002", after an execute_command that failed the first command and
\* while the other mission is active too.
C8_Witness ==
    /\ ret.op = "send_command"
    /\ ret.raised = None
    /\ ret.value = "cmd_0002"
    /\ missions[ret.mission_id].commands[1].status = CMD_FAILED
    /\ \E other \in DOMAIN missions \ {ret.mission_id} :
          missions[other].status = ACTIVE

\* C9: in every state, the ids of a mission's commands are pairwise
\* distinct and their sequence numbers increase along the list.
C9_CommandIdsDistinctIncreasing ==
    \A mission_id \in DOMAIN missions :
        LET commands == missions[mission_id].commands
        IN \A i, j \in DOMAIN commands :
              i < j =>
                 /\ commands[i].id # commands[j].id
                 /\ \E a, b \in DOMAIN SequenceIds :
                       /\ a < b
                       /\ SequenceIds[a] = commands[i].id
                       /\ SequenceIds[b] = commands[j].id

\* C9 happens: a send_command has just given a mission its second command
\* after its first command was completed.
C9_Witness ==
    /\ ret.op = "send_command"
    /\ ret.raised = None
    /\ Len(missions[ret.mission_id].commands) = 2
    /\ missions[ret.mission_id].commands[1].status = CMD_COMPLETED

\* the types execute_command knows
KnownTypes == {"ignition", "adjust_course", "collect_sample"}

\* C10: execute_command on a pending command leaves it, in the same call,
\* completed with a result and returns True when its type is "ignition",
\* "adjust_course" or "collect_sample", and failed with the result "Unknown
\* command type: <type>" and returns False for any other type; the call
\* returns True exactly when it leaves the command completed.
C10_ExecutePendingResolves ==
    \A mission_id \in DOMAIN missions :
        \A i \in DOMAIN missions[mission_id].commands :
            LET command == missions[mission_id].commands[i]
                r == execute_command(mission_id, command.id)
                resolved == r.missions[mission_id].commands[i]
            IN command.status = CMD_PENDING =>
                  /\ r.ret.raised = None
                  /\ command.type \in KnownTypes =>
                        /\ resolved.status = CMD_COMPLETED
                        /\ resolved.result # None
                        /\ resolved.result
                              # "Unknown command type: " \o command.type
                        /\ r.ret.value = TRUE
                  /\ command.type \notin KnownTypes =>
                        /\ resolved.status = CMD_FAILED
                        /\ resolved.result
                              = "Unknown command type: " \o command.type
                        /\ r.ret.value = FALSE
                  /\ r.ret.value = TRUE <=> resolved.status = CMD_COMPLETED

\* C10 happens: an execute_command has just returned False on a command of
\* an unknown type, now failed, of a mission that holds a completed
\* "collect_sample" command too.
C10_Witness ==
    /\ ret.op = "execute_command"
    /\ ret.raised = None
    /\ ret.value = FALSE
    /\ LET commands == missions[ret.mission_id].commands
       IN /\ \E i \in DOMAIN commands :
                /\ commands[i].id = ret.command_id
                /\ commands[i].status = CMD_FAILED
                /\ commands[i].type \notin KnownTypes
          /\ \E i \in DOMAIN commands :
                /\ commands[i].type = "collect_sample"
                /\ commands[i].status = CMD_COMPLETED

\* C11: execute_command on a command that is not pending returns False,
\* also when the command is completed, and leaves the registry as it is; in
\* every step a completed or failed command keeps its status and result,
\* and a pending command stays pending or becomes completed or failed.
C11_CommandResolvedOnce ==
    [][ \A mission_id \in DOMAIN missions :
          \A i \in DOMAIN missions[mission_id].commands :
             LET command == missions[mission_id].commands[i]
                 after == missions'[mission_id].commands[i]
             IN /\ command.status # CMD_PENDING =>
                      /\ command.status \in {CMD_COMPLETED, CMD_FAILED}
                      /\ after.status = command.status
                      /\ after.result = command.result
                      /\ ( /\ ret'.op = "execute_command"
                           /\ ret'.mission_id = mission_id
                           /\ ret'.command_id = command.id ) =>
                             /\ ret'.raised = None
                             /\ ret'.value = FALSE
                             /\ missions' = missions
                             /\ active_mission' = active_mission
                /\ command.status = CMD_PENDING =>
                      after.status \in {CMD_PENDING, CMD_COMPLETED, CMD_FAILED}
      ]_vars

\* C11 happens: an execute_command has just returned False on a completed
\* command, which still holds the result of its first execution.
C11_Witness ==
    /\ ret.op = "execute_command"
    /\ ret.raised = None
    /\ ret.value = FALSE
    /\ \E i \in DOMAIN missions[ret.mission_id].commands :
          LET command == missions[ret.mission_id].commands[i]
          IN /\ command.id = ret.command_id
             /\ command.status = CMD_COMPLETED
             /\ command.result = "Engine ignited successfully"

\* C12: with a mission id the registry does not hold, start_mission,
\* abort_mission, complete_mission, send_command, execute_command,
\* add_telemetry and get_mission_status raise the ValueError "Mission <id>
\* not found"; with a command id the mission does not hold, execute_command
\* raises the ValueError "Command <id> not found"; each leaves every
\* mission, the set of missions and the active-mission pointer as they are.
C12_UnknownIdsRaise ==
    /\ \A mission_id \in (MissionIds \cup LifecycleIds) \ DOMAIN missions :
          LET NotFound(r) ==
                 /\ r.ret.raised = "Mission " \o mission_id \o " not found"
                 /\ RegistryKept(r)
          IN /\ NotFound(start_mission(mission_id))
             /\ NotFound(abort_mission(mission_id))
             /\ NotFound(complete_mission(mission_id))
             /\ \A c \in CommandInputs :
                   NotFound(send_command(mission_id, c.type, c.parameters))
             /\ \A command_id \in CommandIds :
                   NotFound(execute_command(mission_id, command_id))
             /\ \A t \in TelemetryInputs :
                   NotFound(add_telemetry(mission_id, t.altitude, t.velocity,
                                          t.fuel_level, t.system_health))
             /\ NotFound(get_mission_status(mission_id))
    /\ \A mission_id \in DOMAIN missions, command_id \in CommandIds :
          LET commands == missions[mission_id].commands
              r == execute_command(mission_id, command_id)
          IN (\A i \in DOMAIN commands : commands[i].id # command_id) =>
                /\ r.ret.raised = "Command " \o command_id \o " not found"
                /\ RegistryKept(r)

\* C12 happens: an execute_command has just raised on a mission the
\* registry holds, with commands, for a command id the mission does not
\* hold, while another mission id is not in the registry.
C12_Witness ==
    /\ ret.op = "execute_command"
    /\ ret.raised # None
    /\ ret.mission_id \in DOMAIN missions
    /\ missions[ret.mission_id].commands # <<>>
    /\ \A i \in DOMAIN missions[ret.mission_id].commands :
          missions[ret.mission_id].commands[i].id # ret.command_id
    /\ MissionIds \ DOMAIN missions # {}

\* C13: add_telemetry on a mission the registry holds, whatever its status,
\* returns without raising and appends one record to the end of the
\* mission's telemetry, with the altitude, velocity and fuel level given and
\* the system health given, "nominal" when none is given; the records before
\* it, the rest of the mission, the other missions and the active-mission
\* pointer stay.
C13_TelemetryAppendsInEveryStatus ==
    \A mission_id \in DOMAIN missions,
       t \in TelemetryInputs \cup {NominalInput} :
        LET mission == missions[mission_id]
            r == add_telemetry(mission_id, t.altitude, t.velocity,
                               t.fuel_level, t.system_health)
            after == r.missions[mission_id]
            n == Len(mission.telemetry)
        IN /\ r.ret.raised = None
           /\ Len(after.telemetry) = n + 1
           /\ SubSeq(after.telemetry, 1, n) = mission.telemetry
           /\ after.telemetry[n + 1].altitude = t.altitude
           /\ after.telemetry[n + 1].velocity = t.velocity
           /\ after.telemetry[n + 1].fuel_level = t.fuel_level
           /\ after.telemetry[n + 1].system_health =
                 IF t.system_health = Omitted THEN "nominal"
                 ELSE t.system_health
           /\ [after EXCEPT !.telemetry = mission.telemetry] = mission
           /\ r.active_mission = active_mission
           /\ OthersKept(r, mission_id)

\* C13 happens: an add_telemetry without a system health has just given an
\* aborted mission its second record, "nominal", after a record with
\* another system health.
C13_Witness ==
    /\ ret.op = "add_telemetry"
    /\ ret.raised = None
    /\ missions[ret.mission_id].status = ABORTED
    /\ Len(missions[ret.mission_id].telemetry) = 2
    /\ missions[ret.mission_id].telemetry[1].system_health = "en_route_moon"
    /\ missions[ret.mission_id].telemetry[2].system_health = "nominal"
    /\ missions[ret.mission_id].telemetry[2].altitude = 1000

\* the number of commands, from position i on, whose status is in statuses
RECURSIVE Tally(_, _, _)
Tally(commands, statuses, i) ==
    IF i > Len(commands) THEN 0
    ELSE (IF commands[i].status \in statuses THEN 1 ELSE 0)
            + Tally(commands, statuses, i + 1)

\* C14: get_mission_status on a mission the registry holds reports as
\* active_commands the number of its commands pending or executing, as
\* completed_commands the number completed, as failed_commands the number
\* failed, and as latest_telemetry the last record of its telemetry, None
\* when it has none, and leaves the registry as it is.
C14_StatusReportCounts ==
    \A mission_id \in DOMAIN missions :
        LET mission == missions[mission_id]
            r == get_mission_status(mission_id)
            report == r.ret.value
        IN /\ r.ret.raised = None
           /\ report.active_commands
                 = Tally(mission.commands, {CMD_PENDING, CMD_EXECUTING}, 1)
           /\ report.completed_commands
                 = Tally(mission.commands, {CMD_COMPLETED}, 1)
           /\ report.failed_commands = Tally(mission.commands, {CMD_FAILED}, 1)
           /\ report.active_commands + report.completed_commands
                 + report.failed_commands = Len(mission.commands)
           /\ mission.telemetry = <<>> => report.latest_telemetry = <<>>
           /\ mission.telemetry # <<>> =>
                 report.latest_telemetry
                    = <<mission.telemetry[Len(mission.telemetry)]>>
           /\ RegistryKept(r)

\* C14 happens: a get_mission_status has just reported the second of two
\* different telemetry records as the latest.
C14_Witness ==
    /\ ret.op = "get_mission_status"
    /\ ret.raised = None
    /\ Len(missions[ret.mission_id].telemetry) = 2
    /\ missions[ret.mission_id].telemetry[1]
          # missions[ret.mission_id].telemetry[2]
    /\ ret.value.latest_telemetry = <<missions[ret.mission_id].telemetry[2]>>

\* the mission ids of the summaries get_all_missions returns, in their order
ListedIds ==
    LET list == get_all_missions.ret.value
    IN [ k \in DOMAIN list |-> list[k].id ]

\* C15: a get_all_missions returns one summary for each mission of the
\* registry and no two for the same mission, each with the name, status,
\* start time, end time, number of commands and number of telemetry records
\* the mission has then; in every step the missions it lists before the
\* step keep their places in the list, and a mission is added to the list
\* only by a create_mission, at the end, the mission created.
C15_ListInCreationOrder ==
    [][ /\ ret'.op = "get_all_missions" =>
              LET list == ret'.value
              IN /\ ret'.raised = None
                 /\ Len(list) = Cardinality(DOMAIN missions')
                 /\ \A k \in DOMAIN list :
                       /\ list[k].id \in DOMAIN missions'
                       /\ list[k]
                             = LET mission == missions'[list[k].id]
                               IN [ id |-> mission.id,
                                    name |-> mission.name,
                                    status |-> mission.status,
                                    start_time |-> mission.start_time,
                                    end_time |-> mission.end_time,
                                    commands_count |-> Len(mission.commands),
                                    telemetry_count |-> Len(mission.telemetry) ]
                 /\ \A j, k \in DOMAIN list : j # k => list[j].id # list[k].id
                 /\ missions' = missions
                 /\ active_mission' = active_mission
        /\ LET before == ListedIds
               after == ListedIds'
           IN IF Len(after) = Len(before) THEN after = before
              ELSE /\ after = Append(before, ret'.mission_id)
                   /\ ret'.op = "create_mission"
      ]_vars

\* C15 happens: a get_all_missions has just returned "SAT_001", completed,
\* before "LUNAR_001", active: the order the two were created in.
C15_Witness ==
    /\ ret.op = "get_all_missions"
    /\ Len(ret.value) = 2
    /\ ret.value[1].id = "SAT_001"
    /\ ret.value[1].status = COMPLETED
    /\ ret.value[1].end_time # None
    /\ ret.value[1].telemetry_count = 1
    /\ ret.value[2].id = "LUNAR_001"
    /\ ret.value[2].status = ACTIVE
    /\ ret.value[2].commands_count = 1

\* C16: on an empty registry, create_mission, start_mission,
\* send_command("ignition"), execute_command with the id returned,
\* add_telemetry(100, 10, 90, "nominal") and complete_mission on one mission
\* id, "M1" for one: no call raises, start_mission, execute_command and
\* complete_mission return True, and get_mission_status then reports one
\* completed command, no failed and no active command, a latest telemetry of
\* altitude 100 and a completed mission, the active-mission pointer being
\* None.
C16_LifecycleScenario ==
    /\ ret.raised = None
    /\ ret.op \in {"start_mission", "execute_command", "complete_mission"} =>
          ret.value = TRUE
    /\ ret.op = "get_mission_status" =>
          /\ ret.value.completed_commands = 1
          /\ ret.value.failed_commands = 0
          /\ ret.value.active_commands = 0
          /\ Len(ret.value.latest_telemetry) = 1
          /\ ret.value.latest_telemetry[1].altitude = 100
          /\ ret.value.mission.status = COMPLETED
          /\ missions[ret.mission_id].status = COMPLETED
          /\ active_mission = None

\* C16 happens: the get_mission_status that ends the scenario on "M1" has
\* just returned, the mission having ended later than it started.
C16_Witness ==
    /\ ret.op = "get_mission_status"
    /\ ret.mission_id = "M1"
    /\ ret.value.completed_commands = 1
    /\ ret.value.mission.commands[1].id = "cmd_0001"
    /\ ret.value.mission.end_time # ret.value.mission.start_time

\* C17: in every step a mission's end time, once set, stays as it is, and
\* so does its start time; an end time is set only by an abort_mission or
\* complete_mission on that mission that returns True, a start time only by
\* a start_mission on it that returns True; a mission that is planned or
\* active has no end time.
C17_EndTimeStampedOnce ==
    [][ \A mission_id \in DOMAIN missions :
          LET mission == missions[mission_id]
              after == missions'[mission_id]
          IN /\ mission.end_time # None => after.end_time = mission.end_time
             /\ mission.start_time # None =>
                   after.start_time = mission.start_time
             /\ (mission.end_time = None /\ after.end_time # None) =>
                   /\ ret'.op \in {"abort_mission", "complete_mission"}
                   /\ ret'.mission_id = mission_id
                   /\ ret'.raised = None
                   /\ ret'.value = TRUE
             /\ (mission.start_time = None /\ after.start_time # None) =>
                   /\ ret'.op = "start_mission"
                   /\ ret'.mission_id = mission_id
                   /\ ret'.raised = None
                   /\ ret'.value = TRUE
             /\ mission.status \in {PLANNED, ACTIVE} => mission.end_time = None
      ]_vars

\* C17 happens: an abort_mission has just returned False on a completed
\* mission whose end time is earlier than the time of the call.
C17_Witness ==
    /\ ret.op = "abort_mission"
    /\ ret.raised = None
    /\ ret.value = FALSE
    /\ missions[ret.mission_id].status = COMPLETED
    /\ missions[ret.mission_id].end_time # None
    /\ missions[ret.mission_id].end_time # datetime_now

\* C18: in every step every mission of the registry stays in the registry,
\* and a create_mission made with the id of one of them raises and leaves
\* the missions as they are.
C18_MissionsNeverDeleted ==
    [][ /\ DOMAIN missions \subseteq DOMAIN missions'
        /\ \A k \in DOMAIN missions_keys :
              /\ k \in DOMAIN missions_keys'
              /\ missions_keys'[k] = missions_keys[k]
        /\ \A mission_id \in DOMAIN missions :
              (ret'.op = "create_mission" /\ ret'.mission_id = mission_id) =>
                 /\ ret'.raised # None
                 /\ missions' = missions
      ]_vars

\* C18 happens: a create_mission has just raised for the id of an aborted
\* mission, the registry holding two missions.
C18_Witness ==
    /\ ret.op = "create_mission"
    /\ ret.raised # None
    /\ missions[ret.mission_id].status = ABORTED
    /\ Cardinality(DOMAIN missions) = 2

\* C19: in every step the telemetry of each mission before the step is a
\* prefix of its telemetry after the step, and the telemetry is longer
\* after the step only by one record, after an add_telemetry on that
\* mission that did not raise.
C19_TelemetryAppendOnly ==
    [][ \A mission_id \in DOMAIN missions :
          LET before == missions[mission_id].telemetry
              after == missions'[mission_id].telemetry
          IN /\ Len(before) <= Len(after)
             /\ SubSeq(after, 1, Len(before)) = before
             /\ Len(after) # Len(before) =>
                   /\ Len(after) = Len(before) + 1
                   /\ ret'.op = "add_telemetry"
                   /\ ret'.mission_id = mission_id
                   /\ ret'.raised = None
      ]_vars

\* C19 happens: an add_telemetry has just given a completed mission its
\* second record, different from the first.
C19_Witness ==
    /\ ret.op = "add_telemetry"
    /\ ret.raised = None
    /\ missions[ret.mission_id].status = COMPLETED
    /\ Len(missions[ret.mission_id].telemetry) = 2
    /\ missions[ret.mission_id].telemetry[1].altitude = 1000
    /\ missions[ret.mission_id].telemetry[2].altitude = 25000

\* C20: in every step the status of a mission changes only from planned to
\* active after a start_mission on it, from active to completed after a
\* complete_mission on it, or from active to aborted after an abort_mission
\* on it, the call returning True; so a completed or aborted mission keeps
\* its status, and send_command, execute_command, add_telemetry,
\* get_mission_status and get_all_missions change no status.
C20_StatusTransitions ==
    [][ \A mission_id \in DOMAIN missions :
          LET before == missions[mission_id].status
              after == missions'[mission_id].status
          IN /\ before \in {PLANNED, ACTIVE, COMPLETED, ABORTED}
             /\ before # after =>
                   /\ \/ /\ before = PLANNED
                         /\ after = ACTIVE
                         /\ ret'.op = "start_mission"
                      \/ /\ before = ACTIVE
                         /\ after = COMPLETED
                         /\ ret'.op = "complete_mission"
                      \/ /\ before = ACTIVE
                         /\ after = ABORTED
                         /\ ret'.op = "abort_mission"
                   /\ ret'.mission_id = mission_id
                   /\ ret'.raised = None
                   /\ ret'.value = TRUE
      ]_vars

\* C20 happens: an abort_mission has just aborted an active mission that
\* holds a failed command, while the other mission is completed.
C20_Witness ==
    /\ ret.op = "abort_mission"
    /\ ret.raised = None
    /\ ret.value = TRUE
    /\ missions[ret.mission_id].status = ABORTED
    /\ \E i \in DOMAIN missions[ret.mission_id].commands :
          missions[ret.mission_id].commands[i].status = CMD_FAILED
    /\ \E other \in DOMAIN missions : missions[other].status = COMPLETED

\* C21: while a mission A is active, send_command on A raises nothing
\* wherever the active-mission pointer is; start_mission on a planned
\* mission B returns True, makes B active, leaves A as it is and sets the
\* pointer to B; and when the pointer is not at A, complete_mission and
\* abort_mission on A return True, end A and leave the pointer where it is.
C21_SeveralMissionsActive ==
    \A a \in DOMAIN missions :
        missions[a].status = ACTIVE =>
            /\ \A c \in CommandInputs :
                  send_command(a, c.type, c.parameters).ret.raised = None
            /\ \A b \in DOMAIN missions \ {a} :
                  missions[b].status = PLANNED =>
                      LET r == start_mission(b)
                      IN /\ r.ret.raised = None
                         /\ r.ret.value = TRUE
                         /\ r.missions[b].status = ACTIVE
                         /\ r.missions[a] = missions[a]
                         /\ r.active_mission = b
            /\ active_mission # a =>
                  LET completed == complete_mission(a)
                      aborted == abort_mission(a)
                  IN /\ completed.ret.raised = None
                     /\ completed.ret.value = TRUE
                     /\ completed.missions[a].status = COMPLETED
                     /\ completed.active_mission = active_mission
                     /\ aborted.ret.raised = None
                     /\ aborted.ret.value = TRUE
                     /\ aborted.missions[a].status = ABORTED
                     /\ aborted.active_mission = active_mission

\* C21 happens: a send_command has just been accepted by an active mission
\* while the active-mission pointer is at another mission, active too.
C21_Witness ==
    /\ ret.op = "send_command"
    /\ ret.raised = None
    /\ missions[ret.mission_id].status = ACTIVE
    /\ active_mission \in DOMAIN missions \ {ret.mission_id}
    /\ missions[active_mission].status = ACTIVE

\* C22: complete_mission and abort_mission on the active mission the
\* active-mission pointer is at return True and leave the pointer None and
\* the status of every other mission, active ones too, as it is; so the
\* pointer can be None while a mission is active.
C22_PointerClearedWhileOthersActive ==
    \A b \in DOMAIN missions :
        (active_mission = b /\ missions[b].status = ACTIVE) =>
            LET completed == complete_mission(b)
                aborted == abort_mission(b)
            IN /\ completed.ret.raised = None
               /\ completed.ret.value = TRUE
               /\ completed.active_mission = None
               /\ aborted.ret.raised = None
               /\ aborted.ret.value = TRUE
               /\ aborted.active_mission = None
               /\ \A a \in DOMAIN missions \ {b} :
                     /\ completed.missions[a].status = missions[a].status
                     /\ aborted.missions[a].status = missions[a].status

\* C22 happens: a complete_mission has just left the active-mission pointer
\* None while another mission is active.
C22_Witness ==
    /\ ret.op = "complete_mission"
    /\ ret.raised = None
    /\ ret.value = TRUE
    /\ active_mission = None
    /\ \E a \in DOMAIN missions \ {ret.mission_id} : missions[a].status = ACTIVE

\* C23: the active-mission pointer is None or the id of a mission of the
\* registry that is active.
C23_PointerNamesActiveMission ==
    active_mission # None =>
        /\ active_mission \in DOMAIN missions
        /\ missions[active_mission].status = ACTIVE

\* C23 happens: an abort_mission has just ended a mission while the
\* active-mission pointer is at the other mission.
C23_Witness ==
    /\ ret.op = "abort_mission"
    /\ ret.raised = None
    /\ ret.value = TRUE
    /\ missions[ret.mission_id].status = ABORTED
    /\ active_mission \in DOMAIN missions \ {ret.mission_id}

\* C24: complete_mission and abort_mission leave the commands of the
\* mission as they are; get_mission_status of a completed or aborted
\* mission reports its pending commands as active_commands; and
\* execute_command on a pending command of a completed or aborted mission
\* raises nothing, leaves the command completed and returns True when its
\* type is known, failed and returns False otherwise, and leaves the status
\* of the mission as it is.
C24_ExecuteWhateverMissionStatus ==
    \A mission_id \in DOMAIN missions :
        LET mission == missions[mission_id]
        IN /\ mission.status = ACTIVE =>
                 /\ complete_mission(mission_id).missions[mission_id].commands
                       = mission.commands
                 /\ abort_mission(mission_id).missions[mission_id].commands
                       = mission.commands
           /\ mission.status \in {COMPLETED, ABORTED} =>
                 /\ get_mission_status(mission_id).ret.value.active_commands
                       = Tally(mission.commands, {CMD_PENDING}, 1)
                 /\ \A i \in DOMAIN mission.commands :
                       mission.commands[i].status = CMD_PENDING =>
                           LET command == mission.commands[i]
                               r == execute_command(mission_id, command.id)
                               resolved == r.missions[mission_id].commands[i]
                               known == command.type \in KnownTypes
                           IN /\ r.ret.raised = None
                              /\ r.ret.value = known
                              /\ resolved.status =
                                    IF known THEN CMD_COMPLETED ELSE CMD_FAILED
                              /\ resolved.result # None
                              /\ r.missions[mission_id].status = mission.status

\* C24 happens: an execute_command has just completed a command of an
\* aborted mission that holds another command, still pending.
C24_Witness ==
    /\ ret.op = "execute_command"
    /\ ret.raised = None
    /\ ret.value = TRUE
    /\ missions[ret.mission_id].status = ABORTED
    /\ LET commands == missions[ret.mission_id].commands
       IN /\ \E i \in DOMAIN commands :
                /\ commands[i].id = ret.command_id
                /\ commands[i].status = CMD_COMPLETED
          /\ \E i \in DOMAIN commands : commands[i].status = CMD_PENDING

\* C25: a mission has no start time exactly when it is planned, and has an
\* end time exactly when it is completed or aborted.
C25_TimesFollowStatus ==
    \A mission_id \in DOMAIN missions :
        LET mission == missions[mission_id]
        IN /\ mission.start_time = None <=> mission.status = PLANNED
           /\ mission.end_time # None <=> mission.status \in {COMPLETED, ABORTED}

\* C25 happens: a start_mission has just started a mission, which has its
\* start time and no end time, later than the other mission was aborted.
C25_Witness ==
    /\ ret.op = "start_mission"
    /\ ret.raised = None
    /\ ret.value = TRUE
    /\ missions[ret.mission_id].start_time = datetime_now
    /\ missions[ret.mission_id].end_time = None
    /\ \E other \in DOMAIN missions :
          /\ missions[other].status = ABORTED
          /\ missions[other].end_time # datetime_now

\* C26: every command is pending, completed or failed, never executing; it
\* has a result exactly when it is completed or failed; and the
\* active_commands, completed_commands and failed_commands that
\* get_mission_status reports add up to the number of commands of the
\* mission, active_commands being the number of its pending commands.
C26_NoCommandExecutingBetweenCalls ==
    \A mission_id \in DOMAIN missions :
        LET commands == missions[mission_id].commands
            report == get_mission_status(mission_id).ret.value
        IN /\ \A i \in DOMAIN commands :
                 /\ commands[i].status
                       \in {CMD_PENDING, CMD_COMPLETED, CMD_FAILED}
                 /\ commands[i].result # None
                       <=> commands[i].status \in {CMD_COMPLETED, CMD_FAILED}
           /\ report.active_commands + report.completed_commands
                 + report.failed_commands = Len(commands)
           /\ report.active_commands = Tally(commands, {CMD_PENDING}, 1)

\* C26 happens: a get_mission_status has just reported one active command
\* and one failed command for a mission of two commands.
C26_Witness ==
    /\ ret.op = "get_mission_status"
    /\ ret.raised = None
    /\ ret.value.active_commands = 1
    /\ ret.value.failed_commands = 1
    /\ Len(missions[ret.mission_id].commands) = 2

\* the mission holds commands, and all of them are failed
AllCommandsFailed(mission) ==
    /\ mission.commands # <<>>
    /\ \A i \in DOMAIN mission.commands :
          mission.commands[i].status = CMD_FAILED

\* C27: no mission is failed: every mission is planned, active, completed
\* or aborted, also when all its commands are failed; and complete_mission
\* on an active mission whose commands are all failed returns True and
\* leaves it completed.
C27_MissionNeverFailed ==
    \A mission_id \in DOMAIN missions :
        LET mission == missions[mission_id]
        IN /\ mission.status # FAILED
           /\ mission.status \in {PLANNED, ACTIVE, COMPLETED, ABORTED}
           /\ (mission.status = ACTIVE /\ AllCommandsFailed(mission)) =>
                 LET r == complete_mission(mission_id)
                 IN /\ r.ret.raised = None
                    /\ r.ret.value = TRUE
                    /\ r.missions[mission_id].status = COMPLETED

\* C27 happens: a complete_mission has just completed a mission whose two
\* commands are both failed.
C27_Witness ==
    /\ ret.op = "complete_mission"
    /\ ret.raised = None
    /\ ret.value = TRUE
    /\ missions[ret.mission_id].status = COMPLETED
    /\ Len(missions[ret.mission_id].commands) = 2
    /\ AllCommandsFailed(missions[ret.mission_id])

\* C28: start_mission, abort_mission, complete_mission, send_command,
\* execute_command and add_telemetry on a mission id, whether they succeed,
\* return False or raise, leave every other mission of the registry as it
\* is; and send_command on an active mission that holds no command returns
\* "cmd_0001" whatever commands the other missions hold.
C28_MissionsIsolated ==
    /\ \A a \in MissionIds :
          LET Isolated(r) ==
                 \A b \in DOMAIN missions \ {a} :
                     /\ b \in DOMAIN r.missions
                     /\ r.missions[b] = missions[b]
          IN /\ Isolated(start_mission(a))
             /\ Isolated(abort_mission(a))
             /\ Isolated(complete_mission(a))
             /\ \A c \in CommandInputs :
                   Isolated(send_command(a, c.type, c.parameters))
             /\ \A command_id \in CommandIds :
                   Isolated(execute_command(a, command_id))
             /\ \A t \in TelemetryInputs :
                   Isolated(add_telemetry(a, t.altitude, t.velocity,
                                          t.fuel_level, t.system_health))
    /\ \A a \in DOMAIN missions :
          (missions[a].status = ACTIVE /\ missions[a].commands = <<>>) =>
              \A c \in CommandInputs :
                  send_command(a, c.type, c.parameters).ret.value = "cmd_0001"

\* C28 happens: an execute_command has just completed the command
\* "cmd_0001" of one mission while the command "cmd_0001" of the other
\* mission is still pending.
C28_Witness ==
    /\ ret.op = "execute_command"
    /\ ret.raised = None
    /\ ret.value = TRUE
    /\ ret.command_id = "cmd_0001"
    /\ missions[ret.mission_id].commands[1].id = "cmd_0001"
    /\ missions[ret.mission_id].commands[1].status = CMD_COMPLETED
    /\ \E b \in DOMAIN missions \ {ret.mission_id} :
          /\ missions[b].commands # <<>>
          /\ missions[b].commands[1].id = "cmd_0001"
          /\ missions[b].commands[1].status = CMD_PENDING

====
